---- MODULE Spec2Model ----
EXTENDS Integers, Sequences, FiniteSets, TLC

\* ------------------------------------------------------------------
\* Bounds and program constants
\* ------------------------------------------------------------------
MaxLen == 3
MaxRows == 2
MaxDataRows == 3
\* trailing rows of a long manifest whose URL cells are empty
PadRows == 2100

\* safe_folder_name truncates to 255 characters; also the file-name limit
NameMax == 255
\* download_count = 2087
Start == 2087

\* ------------------------------------------------------------------
\* Strings are sequences of one-character strings; characters without a
\* TLA+ literal are tokens: "<NBSP>" is U+00A0, "<VT>" U+000B, "<HANGUL>"
\* U+AC00, "<E_ACUTE>" U+00E9, and so on
\* ------------------------------------------------------------------
Alphabet == {"a", "b", "1", "_", ".", "/", "*", " ", "\r", "<NBSP>", "<HANGUL>"}

Strs(n) == UNION {[1..k -> Alphabet] : k \in 0..n}

Min2(a, b) == IF a < b THEN a ELSE b

\* Python's Unicode \s (str.isspace characters)
Whitespace == {" ", "\t", "\n", "\r", "\f", "<VT>", "<FS>", "<GS>", "<RS>", "<US>",
               "<NEL>", "<NBSP>", "<OGHAM_SP>", "<EN_QUAD>", "<EM_QUAD>", "<EN_SP>",
               "<EM_SP>", "<3PEM_SP>", "<4PEM_SP>", "<6PEM_SP>", "<FIG_SP>",
               "<PUNCT_SP>", "<THIN_SP>", "<HAIR_SP>", "<LSEP>", "<PSEP>",
               "<NNBSP>", "<MMSP>", "<IDSP>"}

\* characters of the class [<>:"/\\|?*\s*\.\.{1,}] in safe_folder_name
FolderBad == {"<", ">", ":", "\"", "/", "\\", "|", "?", "*", ".", "{", "1", ",", "}"}
             \cup Whitespace

\* characters of the class [!@#$%^&*()_+\-=\[\]{}|\\:;"'<>,/?] in safe_filename
FileBad == {"!", "@", "#", "$", "%", "^", "&", "*", "(", ")", "_", "+", "-",
            "=", "[", "]", "{", "}", "|", "\\", ":", ";", "\"", "'", "<",
            ">", ",", "/", "?"}

\* Python's Unicode \w in the regex of clean_file_name: letters of any
\* script, digits and the underscore
WordChars == {"a", "b", "c", "d", "e", "f", "g", "h", "i", "j", "k", "l", "m",
              "n", "o", "p", "q", "r", "s", "t", "u", "v", "w", "x", "y", "z",
              "A", "B", "C", "D", "E", "F", "G", "H", "I", "J", "K", "L", "M",
              "N", "O", "P", "Q", "R", "S", "T", "U", "V", "W", "X", "Y", "Z",
              "0", "1", "2", "3", "4", "5", "6", "7", "8", "9", "_",
              "<HANGUL>", "<E_ACUTE>"}

RECURSIVE DropLeadDots(_)
DropLeadDots(s) == IF s # <<>> /\ Head(s) = "." THEN DropLeadDots(Tail(s)) ELSE s

RECURSIVE DropDotRun(_)
DropDotRun(s) == IF s # <<>> /\ s[Len(s)] = "." THEN DropDotRun(SubSeq(s, 1, Len(s) - 1)) ELSE s

\* \.+$ : Python's $ also matches just before a final newline
DropTrailDots(s) ==
  IF s # <<>> /\ s[Len(s)] = "\n"
  THEN DropDotRun(SubSeq(s, 1, Len(s) - 1)) \o <<"\n">>
  ELSE DropDotRun(s)

safe_folder_name(s) ==
  LET r1 == [k \in 1..Len(s) |-> IF s[k] \in FolderBad THEN "_" ELSE s[k]]
      r2 == DropTrailDots(DropLeadDots(r1))
  IN  SubSeq(r2, 1, Min2(Len(r2), NameMax))

\* end of the greedy \w+ run starting at position p
RECURSIVE WordRunEnd(_, _)
WordRunEnd(f, p) == IF p < Len(f) /\ f[p + 1] \in WordChars THEN WordRunEnd(f, p + 1) ELSE p

clean_file_name(f) ==
  LET starts == {p \in 1..Len(f) : f[p] = "." /\ p < Len(f) /\ f[p + 1] \in WordChars}
  IN  IF starts = {} THEN f
      ELSE LET p == CHOOSE q \in starts : \A q2 \in starts : q <= q2
           IN  SubSeq(f, 1, WordRunEnd(f, p + 1))

safe_filename(f) == [k \in 1..Len(f) |-> IF f[k] \in FileBad THEN "_" ELSE f[k]]

\* ------------------------------------------------------------------
\* Downloader helpers
\* ------------------------------------------------------------------
DigitChar(d) == CASE d = 0 -> "0" [] d = 1 -> "1" [] d = 2 -> "2" [] d = 3 -> "3"
                  [] d = 4 -> "4" [] d = 5 -> "5" [] d = 6 -> "6" [] d = 7 -> "7"
                  [] d = 8 -> "8" [] d = 9 -> "9"

RECURSIVE Digits(_)
Digits(n) == IF n < 10 THEN <<DigitChar(n)>> ELSE Digits(n \div 10) \o <<DigitChar(n % 10)>>

\* f"{n:5d}"
FmtIndex(n) ==
  LET d == Digits(n)
  IN  IF Len(d) >= 5 THEN d ELSE [k \in 1..(5 - Len(d)) |-> " "] \o d

TitleFolderNoIndex(n, title) == safe_folder_name(title)

\* f"{download_count+1:5d}_{safe_folder_name(title)}"
TitleFolder(n, title) == FmtIndex(n) \o <<"_">> \o safe_folder_name(title)

\* os.path.relpath(os.path.join(base, org, title_folder, file), base)
RelPath(orgF, tf, file) == IF orgF = <<>> THEN <<tf, file>> ELSE <<orgF, tf, file>>

NextCountStuck(c) == c

\* download_count += 1
NextCount(c) == c + 1

\* url cells of the manifest: "blank" = empty or whitespace string,
\* "nan" = empty cell, "num" = numeric cell; the others are URLs whose
\* server answers as given by Resp
Urls == {"blank", "nan", "num", "ok", "html", "s404", "s304", "neterr"}

Pdf == <<"%", "P", "D", "F">>
HtmlPage == <<"x", "<", "H", "T", "M", "L", ">">>

\* requests.get(url, stream=True): status, content, or a connection error
Resp(u) ==
  CASE u = "ok"     -> [neterr |-> FALSE, status |-> 200, body |-> Pdf]
    [] u = "html"   -> [neterr |-> FALSE, status |-> 200, body |-> HtmlPage]
    [] u = "s404"   -> [neterr |-> FALSE, status |-> 404, body |-> Pdf]
    [] u = "s304"   -> [neterr |-> FALSE, status |-> 304, body |-> <<>>]
    [] OTHER        -> [neterr |-> TRUE,  status |-> 0,   body |-> <<>>]

\* response.raise_for_status(): HTTPError for 4xx and 5xx only
RaiseForStatus(st) == st >= 400 /\ st < 600

Lower(c) == CASE c = "H" -> "h" [] c = "T" -> "t" [] c = "M" -> "m" [] c = "L" -> "l"
             [] OTHER -> c

HtmlTag == <<"<", "h", "t", "m", "l">>

\* re.search(r'<html', content, re.IGNORECASE)
is_html(b) ==
  \E p \in 1..Len(b) : p + 4 <= Len(b) /\ \A k \in 1..5 : Lower(b[p + k - 1]) = HtmlTag[k]

Orgs == {<<>>, <<"a">>}
Titles == {<<"a">>}
Fnames == {[nan |-> FALSE, s |-> <<"a">>], [nan |-> FALSE, s |-> <<".", "a">>],
           [nan |-> TRUE, s |-> <<>>]}

RowSet == [url : Urls, org : Orgs, title : Titles, fname : Fnames]

\* Linux NAME_MAX: a path component is at most 255 bytes
FsNameMax == 255

\* UTF-8 width of a character (tokens stand for the code points named above)
Utf8Width(c) ==
  IF c \in {"<NBSP>", "<E_ACUTE>", "<NEL>"} THEN 2
  ELSE IF c \in {"<HANGUL>", "<OGHAM_SP>", "<EN_QUAD>", "<EM_QUAD>", "<EN_SP>",
                 "<EM_SP>", "<3PEM_SP>", "<4PEM_SP>", "<6PEM_SP>", "<FIG_SP>",
                 "<PUNCT_SP>", "<THIN_SP>", "<HAIR_SP>", "<LSEP>", "<PSEP>",
                 "<NNBSP>", "<MMSP>", "<IDSP>"} THEN 3
  ELSE 1

\* len(name.encode('utf-8')), the length the file system checks
RECURSIVE ByteLen(_)
ByteLen(s) == IF s = <<>> THEN 0 ELSE Utf8Width(Head(s)) + ByteLen(Tail(s))

\* st.progress accepts a float in [0.0, 1.0]; c / t is a float
ProgressValueOk(c, t) == c <= t

\* open(file_path, 'wb') fails (IsADirectoryError) for these names
DirNames == {<<>>, <<".">>, <<".", ".">>}

LogNames == {<<<<"l", "o", "g", ".", "l", "o", "g">>>>,
             <<<<"l", "o", "g", ".", "c", "s", "v">>>>,
             <<<<"e", "r", "r", "o", "r", ".", "l", "o", "g">>>>,
             <<<<"e", "r", "r", "o", "r", ".", "c", "s", "v">>>>}

\* ------------------------------------------------------------------
\* Rebalancer helpers (undersampling.py)
\* ------------------------------------------------------------------
\* column '분류' is "label", column 'message_tree_id' is "key"
Exts == {".xlsx", ".csv", ".json", ".parquet", ".txt"}
Supported == {".xlsx", ".csv", ".json", ".parquet"}
LabelVals == {"A", "B", "NaN"}
KeyVals == {"k1", "k2", "NaN"}
DataRow == [label : LabelVals, key : KeyVals]
\* ratio as a fraction num/den
Ratios == {<<1, 2>>, <<1, 1>>, <<2, 1>>}

FloorMul(m, r) == (m * r[1]) \div r[2]

\* ceil(m * ratio)
CeilMul(m, r) == (m * r[1] + r[2] - 1) \div r[2]

ReadCsvLenient(dec) == "ok"

\* pd.read_csv(input_file, encoding=detect_encoding(input_file))
ReadCsv(dec) == IF dec THEN "ok" ELSE "UnicodeDecodeError"

\* df['분류'].unique(): NaN is one value
Labels(d) == {d[k].label : k \in 1..Len(d)}

\* df[df['분류'] == category]: NaN == NaN is false
Group(d, c) == {k \in 1..Len(d) : c # "NaN" /\ d[k].label = c}

\* group['message_tree_id'].unique()
UKeys(d, c) == {d[k].key : k \in Group(d, c)}

MinOf(S) == CHOOSE m \in S : \A x \in S : m <= x

\* ------------------------------------------------------------------
\* Variables
\* ------------------------------------------------------------------
VARIABLES
  \* sanitizer application (download_files lines 76-81)
  nameIn, orgName, titleName, fileName, sanDone,
  \* download_files: manifest, loop position, counter, written files,
  \* requests per row, the four log files, run status, zip entries
  rows, total, i, count, files, attempts, logLog, logCsv, errLog, errCsv, dlStatus, zip,
  \* resample_dataset: file extension, whether the CSV bytes decode, the
  \* stripped column names, the rows, the ratio, the run phase, the rows
  \* kept, whether the _resampled file exists, the raised error
  ext, decodable, cols, data, ratio, phase, outRows, outFile, err

sanVars == <<nameIn, orgName, titleName, fileName, sanDone>>

dlVars == <<rows, total, i, count, files, attempts, logLog, logCsv, errLog, errCsv, dlStatus, zip>>

rsVars == <<ext, decodable, cols, data, ratio, phase, outRows, outFile, err>>

vars == <<sanVars, dlVars, rsVars>>

DlIdle ==
  /\ rows = <<>> /\ total = 0 /\ i = 1 /\ count = Start /\ files = [p \in {} |-> 0]
  /\ attempts = <<>> /\ logLog = <<"Download Log">>
  /\ logCsv = <<"header">> /\ errLog = <<[url |-> "", msg |-> "Error Log"]>>
  /\ errCsv = <<"header">> /\ dlStatus = "idle" /\ zip = {}

RsIdle ==
  /\ ext = "" /\ decodable = TRUE /\ cols = {} /\ data = <<>> /\ ratio = <<1, 1>>
  /\ phase = "idle" /\ outRows = {} /\ outFile = FALSE /\ err = ""

SanIdle ==
  /\ nameIn = <<>> /\ orgName = <<>> /\ titleName = <<>> /\ fileName = <<>>
  /\ sanDone = FALSE

\* ------------------------------------------------------------------
\* Sanitizer specification
\* ------------------------------------------------------------------
SanInit ==
  /\ DlIdle /\ RsIdle
  /\ nameIn \in Strs(MaxLen)
  /\ orgName = <<>> /\ titleName = <<>> /\ fileName = <<>>
  /\ sanDone = FALSE

\* download_files lines 76-81: the names put into the destination path
SanitizeNames ==
  /\ ~sanDone
  /\ orgName' = safe_folder_name(nameIn)
  \* first row: title_folder = f"{download_count+1:5d}_{safe_folder_name(title)}"
  /\ titleName' = TitleFolder(Start + 1, nameIn)
  /\ fileName' = safe_filename(clean_file_name(nameIn))
  /\ sanDone' = TRUE
  /\ UNCHANGED <<nameIn, dlVars, rsVars>>

SanNext == SanitizeNames

SanSpec == SanInit /\ [][SanNext]_vars

\* ------------------------------------------------------------------
\* Downloader specification (download_files)
\* ------------------------------------------------------------------
\* state after initialize_logging at the top of download_files
DlInit ==
  /\ SanIdle /\ RsIdle
  /\ rows \in UNION {[1..n -> RowSet] : n \in 1..MaxRows}
  \* total_files = len(df): the modelled rows, possibly followed by PadRows
  \* rows with an empty URL cell
  /\ total \in {Len(rows), Len(rows) + PadRows}
  /\ i = 1 /\ count = Start /\ files = [p \in {} |-> 0]
  /\ attempts = [r \in 1..Len(rows) |-> 0]
  /\ logLog = <<"Download Log">> /\ logCsv = <<"header">>
  /\ errLog = <<[url |-> "", msg |-> "Error Log"]>> /\ errCsv = <<"header">>
  /\ dlStatus = "running" /\ zip = {}

\* lines 73-74: blank or missing URL, row skipped
SkipBlankRow ==
  /\ dlStatus = "running" /\ i <= Len(rows)
  /\ rows[i].url \in {"blank", "nan"}
  /\ i' = i + 1
  /\ UNCHANGED <<sanVars, rsVars, rows, total, count, files, attempts, logLog, logCsv, errLog, errCsv, dlStatus, zip>>

Abort ==
  /\ dlStatus' = "aborted"
  /\ UNCHANGED <<i, count, files, logLog, logCsv, errLog, errCsv, zip>>

\* lines 73-109: one row with a non-blank URL
DownloadRow ==
  /\ dlStatus = "running" /\ i <= Len(rows)
  /\ rows[i].url \notin {"blank", "nan"}
  /\ UNCHANGED <<sanVars, rsVars, rows, total>>
  /\ IF rows[i].url = "num" \/ rows[i].fname.nan
       \* url.strip() on a number / re.search on NaN: uncaught exception
       THEN Abort /\ UNCHANGED attempts
       ELSE
         LET r == rows[i]
             orgF == safe_folder_name(r.org)
             tf == TitleFolder(count + 1, r.title)
             file == safe_filename(clean_file_name(r.fname.s))
             resp == Resp(r.url)
             path == RelPath(orgF, tf, file)
             fail(msg) ==
               /\ errLog' = Append(errLog, [url |-> r.url, msg |-> msg])
               /\ i' = i + 1
               /\ UNCHANGED <<count, files, logLog, logCsv, errCsv, dlStatus, zip>>
         IN
         IF ByteLen(orgF) > FsNameMax \/ ByteLen(tf) > FsNameMax
           \* os.makedirs raises OSError (ENAMETOOLONG) outside the try
           THEN Abort /\ UNCHANGED attempts
         ELSE
           /\ attempts' = [attempts EXCEPT ![i] = @ + 1]
           /\ IF resp.neterr THEN fail("ConnectionError")
              ELSE IF RaiseForStatus(resp.status) THEN fail("HTTPError")
              ELSE IF is_html(resp.body) THEN fail("ValueError")
              ELSE IF file \in DirNames \/ ByteLen(file) > FsNameMax
                \* open(file_path, 'wb') raises OSError, not caught
                THEN Abort
              ELSE
                /\ files' = [p \in DOMAIN files \cup {path} |-> IF p = path THEN i ELSE files[p]]
                /\ count' = NextCount(count)
                /\ UNCHANGED <<logLog, logCsv, errLog, errCsv, zip>>
                \* line 108: progress_bar.progress(download_count / total_files)
                \* raises StreamlitAPIException outside [0.0, 1.0]
                /\ IF ProgressValueOk(NextCount(count), total)
                   THEN /\ i' = i + 1 /\ UNCHANGED dlStatus
                   ELSE /\ dlStatus' = "aborted" /\ UNCHANGED i

\* lines 112-122: zip every file under the download folder (the padding
\* rows after the modelled ones are skipped by lines 73-74)
Archive ==
  /\ dlStatus = "running" /\ i > Len(rows)
  /\ zip' = DOMAIN files \cup LogNames
  /\ dlStatus' = "done"
  /\ UNCHANGED <<sanVars, rsVars, rows, total, i, count, files, attempts, logLog, logCsv, errLog, errCsv>>

DlNext == SkipBlankRow \/ DownloadRow \/ Archive

DlSpec == DlInit /\ [][DlNext]_vars

\* ------------------------------------------------------------------
\* Rebalancer specification (resample_dataset)
\* ------------------------------------------------------------------
RsInit ==
  /\ SanIdle /\ DlIdle
  /\ ext \in {".csv", ".json"} /\ decodable = TRUE /\ cols = {"label", "key"}
  /\ data \in UNION {[1..n -> DataRow] : n \in 0..MaxDataRows}
  /\ ratio \in Ratios
  /\ phase = "idle" /\ outRows = {} /\ outFile = FALSE /\ err = ""

RsLoadInit ==
  /\ SanIdle /\ DlIdle
  /\ ext \in Exts /\ decodable \in BOOLEAN /\ cols \in SUBSET {"label", "key"}
  /\ data \in {<<>>, <<[label |-> "A", key |-> "k1"], [label |-> "B", key |-> "k2"]>>}
  /\ ratio \in Ratios
  /\ phase = "idle" /\ outRows = {} /\ outFile = FALSE /\ err = ""

RsFail(e) ==
  /\ phase' = "error" /\ err' = e
  /\ UNCHANGED <<outRows, outFile>>

\* lines 101-122: write the _resampled file in the input's format
RsWrite ==
  /\ outFile' = TRUE /\ phase' = "done"
  /\ UNCHANGED err

\* resample_dataset, lines 21-122
Resample ==
  /\ phase = "idle"
  /\ UNCHANGED <<sanVars, dlVars, ext, decodable, cols, data, ratio>>
  /\ IF ext \notin Supported THEN RsFail("Unsupported file format")
     ELSE IF ext = ".csv" /\ ReadCsv(decodable) # "ok" THEN RsFail("Unable to decode")
     ELSE IF ext # ".json" /\ ~({"label", "key"} \subseteq cols)
       THEN RsFail("Required columns not found")
     ELSE IF ext = ".json" /\ "label" \notin cols THEN RsFail("KeyError label")
     ELSE IF ext # ".json" THEN
       \* grouped policy, lines 49-75
       LET L == Labels(data)
       IN  IF L = {} THEN RsFail("min() arg is an empty sequence")
           ELSE
             LET cap == CeilMul(MinOf({Cardinality(UKeys(data, c)) : c \in L}), ratio)
             IN  \E pick \in [L -> SUBSET KeyVals] :
                   /\ \A c \in L : pick[c] \subseteq UKeys(data, c)
                                  /\ Cardinality(pick[c]) = Min2(Cardinality(UKeys(data, c)), cap)
                   /\ outRows' = UNION {{k \in Group(data, c) : data[k].key \in pick[c]} : c \in L}
                   /\ RsWrite
     ELSE
       \* row policy, lines 84-96: value_counts and groupby drop NaN labels
       LET L == Labels(data) \ {"NaN"}
       IN  IF L = {} THEN RsFail("cannot convert float NaN to integer")
           ELSE
             LET cap == CeilMul(MinOf({Cardinality(Group(data, c)) : c \in L}), ratio)
             IN  \E pick \in [L -> SUBSET (1..Len(data))] :
                   /\ \A c \in L : pick[c] \subseteq Group(data, c)
                                  /\ Cardinality(pick[c]) = Min2(Cardinality(Group(data, c)), cap)
                   /\ outRows' = UNION {pick[c] : c \in L}
                   /\ RsWrite

RsNext == Resample

RsSpec == RsInit /\ [][RsNext]_vars

RsLoadSpec == RsLoadInit /\ [][RsNext]_vars

PathSep == {"/", "\\", "\"", "*", "?", "<", ">", "|", ":"}

SafeName(s) ==
  /\ \A k \in 1..Len(s) : s[k] \notin PathSep
  /\ ~(Len(s) > 0 /\ (s[1] = "." \/ s[Len(s)] = "."))
  /\ Len(s) <= NameMax

\* C1: every name placed into a destination path (organization folder,
\* title folder, file name) has no disallowed character, no leading or
\* trailing dot, and at most 255 characters.
C1_SafeNames ==
  sanDone => (SafeName(orgName) /\ SafeName(titleName) /\ SafeName(fileName))

\* ------------------------------------------------------------------
\* Downloader properties
\* ------------------------------------------------------------------
FetchedUrls == {"ok", "html", "s404", "s304", "neterr"}

NoFileOf(r) == \A p \in DOMAIN files : files[p] # r

ErrorLogged(u) == \E e \in 2..Len(errLog) : errLog[e].url = u /\ errLog[e].msg # ""

\* C2: no per-row failure aborts the batch: download_files never ends with
\* an exception escaping the row loop.
C2_NoRowAbortsBatch == dlStatus # "aborted"

\* C3: a row whose URL answers with a non-2xx status or with a
\* payload containing "<html" leaves no file, is in the error log, and is
\* requested exactly once.
C3_RejectedNon2xx ==
  dlStatus = "done" =>
    \A r \in 1..Len(rows) :
      (rows[r].url \in FetchedUrls /\ ~Resp(rows[r].url).neterr
       /\ (Resp(rows[r].url).status \notin 200..299 \/ is_html(Resp(rows[r].url).body)))
      => NoFileOf(r) /\ ErrorLogged(rows[r].url) /\ attempts[r] = 1

AllRowsDownloadable ==
  /\ total = Len(rows)
  /\ \A k \in 1..Len(rows) : rows[k].url = "ok" /\ ~rows[k].fname.nan

ExpectedPath(k) ==
  RelPath(safe_folder_name(rows[k].org),
          FmtIndex(Start + k) \o <<"_">> \o safe_folder_name(rows[k].title),
          safe_filename(clean_file_name(rows[k].fname.s)))

\* C4: for a manifest of N rows that all download, download_files returns
\* a zip holding exactly the N files at <organization>/<index>_<title>/<filename>
\* plus the four log files.
C4_ZipHoldsAllRows ==
  (AllRowsDownloadable /\ dlStatus # "running") =>
    /\ dlStatus = "done"
    /\ zip = {ExpectedPath(k) : k \in 1..Len(rows)} \cup LogNames
    /\ Cardinality(zip) = Len(rows) + 4

\* C5: every processed row is appended to log.log and log.csv, and every
\* failed row to error.log and error.csv.
C5_LogsPerRow ==
  dlStatus = "done" =>
    LET proc == Cardinality({k \in 1..Len(rows) : rows[k].url \notin {"blank", "nan"}})
        nerr == Len(errLog) - 1
    IN  /\ Len(logLog) - 1 = proc
        /\ Len(logCsv) - 1 = proc
        /\ Len(errCsv) - 1 = nerr

\* C9: no successful download overwrites another: each success adds a
\* distinct file.
C9_NoOverwrite == Cardinality(DOMAIN files) = count - Start

C9_Witness ==
  \E p, q \in DOMAIN files : p # q /\ rows[files[p]] = rows[files[q]]

\* ------------------------------------------------------------------
\* Rebalancer properties
\* ------------------------------------------------------------------
LabelRows(c) == {k \in 1..Len(data) : data[k].label = c}

LabelKeys(c) == {data[k].key : k \in LabelRows(c)}

KeptKeys(c) == {data[k].key : k \in outRows \cap LabelRows(c)}

\* C6: grouped policy keeps, per label, exactly min(distinct keys, cap)
\* keys, cap = ceil(min distinct-key count * ratio), and whole groups.
C6_GroupedCap ==
  (phase = "done" /\ ext # ".json") =>
    LET L == Labels(data)
        cap == CeilMul(MinOf({Cardinality(LabelKeys(c)) : c \in L}), ratio)
    IN  \A c \in L :
          /\ Cardinality(KeptKeys(c)) = Min2(Cardinality(LabelKeys(c)), cap)
          /\ \A k \in LabelRows(c) : data[k].key \in KeptKeys(c) => k \in outRows

\* C7: row policy keeps, for each (non-missing) label, exactly
\* min(rows, cap) of its rows, cap = ceil(min row count * ratio), and
\* only input rows.
C7_RowCap ==
  (phase = "done" /\ ext = ".json") =>
    LET L == Labels(data) \ {"NaN"}
        m == MinOf({Cardinality(LabelRows(c)) : c \in L})
        cap == (m * ratio[1] + ratio[2] - 1) \div ratio[2]
    IN  /\ outRows \subseteq 1..Len(data)
        /\ \A c \in L : Cardinality(outRows \cap LabelRows(c)) = Min2(Cardinality(LabelRows(c)), cap)

C7_Witness ==
  /\ phase = "done" /\ ext = ".json"
  /\ \E c \in Labels(data) \ {"NaN"} :
       0 < Cardinality(outRows \cap LabelRows(c))
       /\ Cardinality(outRows \cap LabelRows(c)) < Cardinality(LabelRows(c))

\* C8: unsupported extension, undecodable CSV and missing columns fail with
\* an error, and a failing run writes no _resampled file.
C8_FailFast ==
  /\ phase = "error" => (~outFile /\ err # "")
  /\ (phase # "idle" /\ (ext \notin Supported \/ (ext = ".csv" /\ ~decodable)
                          \/ (ext # ".json" /\ ~({"label", "key"} \subseteq cols))
                          \/ "label" \notin cols))
     => phase = "error"

C8_Witness == phase = "error" /\ ext = ".csv" /\ ~decodable

\* C10: with ratio > 0, every label value of the input keeps a row.
C10_LabelsSurvive ==
  (phase = "done" /\ ratio[1] > 0) =>
    \A c \in Labels(data) : \E k \in outRows : data[k].label = c

====
